---- MODULE Spec2Model ----
(***************************************************************************)
(* async-result-ext: asynchronous counterparts of the Result combinators   *)
(* (src/src/lib.rs).  Every combinator is an `async fn`, that is a state   *)
(* machine driven by poll: the first poll runs the match on the receiver,  *)
(* a branch that invokes a caller-supplied closure builds that closure's   *)
(* future and awaits it, and every later poll polls the awaited future     *)
(* again until it is ready.  One step of the model is one poll of the      *)
(* future the combinator returned.                                         *)
(***************************************************************************)
EXTENDS Integers, Sequences, FiniteSets, TLC

\* Number of distinct payloads of each of the generic types T, E, U and O.
NumVal == 2
\* Largest number of polls for which a caller-supplied future answers Pending.
MaxDelay == 2

\* The generic payload types T, E, U and O, all instantiated at one payload
\* type (as in Result<i32, i32>), so that every closure accepts every payload
\* and a call that hands a closure the wrong payload still has an outcome.
Val == 1..NumVal
T == Val
E == Val
U == Val
O == Val

\* Result<T, E>
Ok(v) == [tag |-> "Ok", val |-> v]
Err(e) == [tag |-> "Err", val |-> e]
ResultOf(A, B) == {Ok(a) : a \in A} \cup {Err(b) : b \in B}

\* The unit value `()` the inspecting closures' futures resolve to.
Unit == "unit"
NoDefault == "none"
NoResult == "none"
NoFut == [fn |-> "none", arg |-> 0]

Methods == {"async_map", "async_and_then", "async_map_or", "async_map_or_else",
            "async_map_err", "async_inspect", "async_inspect_err", "async_is_ok_and"}

\* The closures a caller can pass as `op`, by the bounds of the trait method.
OpSet(m) ==
  CASE m = "async_map" -> [T -> U]
    [] m = "async_and_then" -> [T -> ResultOf(U, E)]
    [] m = "async_map_or" -> [T -> U]
    [] m = "async_map_or_else" -> [T -> U]
    [] m = "async_map_err" -> [E -> O]
    [] m = "async_inspect" -> [T -> {Unit}]
    [] m = "async_inspect_err" -> [E -> {Unit}]
    [] m = "async_is_ok_and" -> [T -> BOOLEAN]

\* The `default` argument: a value of U, a closure E -> Fut<U>, or absent.
DefaultSet(m) ==
  CASE m = "async_map_or" -> U
    [] m = "async_map_or_else" -> [E -> U]
    [] OTHER -> {NoDefault}

VARIABLES
  method,   \* the combinator being called
  self,     \* the receiver, consumed by the call
  op,       \* the caller-supplied closure
  default,  \* the caller-supplied default (value or closure)
  delay,    \* polls for which the caller's future will still answer Pending
  pc,       \* "start": not polled yet; "await": parked on the await; "done"
  fut,      \* the future being awaited
  result,   \* the value the call completed with
  calls,    \* the invocations of caller-supplied closures, in order
  awaits,   \* the number of await points the call has reached
  polls,    \* the number of times the call's own future has been polled
  seen      \* the payloads of the caller's futures that ran to completion

vars == <<method, self, op, default, delay, pc, fut, result, calls, awaits, polls, seen>>

Init ==
  /\ method \in Methods
  /\ self \in ResultOf(T, E)
  /\ op \in OpSet(method)
  /\ default \in DefaultSet(method)
  /\ delay \in 0..MaxDelay
  /\ pc = "start"
  /\ fut = NoFut
  /\ result = NoResult
  /\ calls = <<>>
  /\ awaits = 0
  /\ polls = 0
  /\ seen = <<>>

\* The shape of the state of one call.
TypeOK ==
  /\ method \in Methods
  /\ self \in ResultOf(T, E)
  /\ op \in OpSet(method)
  /\ default \in DefaultSet(method)
  /\ delay \in 0..MaxDelay
  /\ pc \in {"start", "await", "done"}
  /\ fut.fn \in {"none", "op", "default"}
  /\ calls \in Seq([fn : {"op", "default"}, arg : Val])
  /\ awaits \in 0..1
  /\ polls \in 0..(MaxDelay + 1)
  /\ seen \in Seq(Val)

\* The value the future built by closure f.fn for payload f.arg resolves to.
Output(f) == IF f.fn = "default" THEN default[f.arg] ELSE op[f.arg]

\* An invocation that builds the closure's future twice (once to start it,
\* once to await it).
Invoke_twice(fn, arg) ==
  /\ calls' = Append(Append(calls, [fn |-> fn, arg |-> arg]), [fn |-> fn, arg |-> arg])
  /\ awaits' = awaits + 1

\* `fn(arg)`: invoke a caller-supplied closure, which builds its future.
Invoke(fn, arg) ==
  /\ calls' = Append(calls, [fn |-> fn, arg |-> arg])
  /\ awaits' = awaits + 1

\* An await that takes the first answer of the future for its output: the
\* call goes on although the future answered Pending.
PollAwait_no_wait(f, out) ==
  /\ pc' = "done"
  /\ result' = out
  /\ fut' = NoFut
  /\ seen' = IF delay = 0 THEN Append(seen, f.arg) ELSE seen
  /\ delay' = delay

\* `.await` on future f: poll it; Pending parks the call on f, Ready lets the
\* arm evaluate to `out` and the call complete.
PollAwait(f, out) ==
  IF delay = 0
    THEN /\ pc' = "done"
         /\ result' = out
         /\ fut' = NoFut
         /\ seen' = Append(seen, f.arg)
         /\ delay' = delay
    ELSE /\ pc' = "await"
         /\ fut' = f
         /\ delay' = delay - 1
         /\ UNCHANGED <<result, seen>>

\* An arm without an await: the call completes within the same poll.
Return(out) ==
  /\ pc' = "done"
  /\ result' = out
  /\ UNCHANGED <<fut, seen, delay, calls, awaits>>

Fut(fn, arg) == [fn |-> fn, arg |-> arg]

\* async_map with the Ok arm re-wrapping the payload it was given instead of
\* the value the closure's future resolved to.
async_map_unmapped ==
  /\ method = "async_map"
  /\ \/ /\ pc = "start" /\ self.tag = "Ok"
        /\ Invoke("op", self.val)
        /\ PollAwait(Fut("op", self.val), Ok(self.val))
     \/ /\ pc = "start" /\ self.tag = "Err"
        /\ Return(Err(self.val))
     \/ /\ pc = "await"
        /\ PollAwait(fut, Ok(fut.arg))
        /\ UNCHANGED <<calls, awaits>>
  /\ polls' = polls + 1
  /\ UNCHANGED <<method, self, op, default>>

async_map ==
  /\ method = "async_map"
  /\ \/ /\ pc = "start" /\ self.tag = "Ok"
        /\ Invoke("op", self.val)
        /\ PollAwait(Fut("op", self.val), Ok(Output(Fut("op", self.val))))
     \/ /\ pc = "start" /\ self.tag = "Err"
        /\ Return(Err(self.val))
     \/ /\ pc = "await"
        /\ PollAwait(fut, Ok(Output(fut)))
        /\ UNCHANGED <<calls, awaits>>
  /\ polls' = polls + 1
  /\ UNCHANGED <<method, self, op, default>>

\* async_and_then treating the closure as a mapping: the payload of whatever
\* outcome the closure resolved to is wrapped in Ok.
async_and_then_rewrapped ==
  /\ method = "async_and_then"
  /\ \/ /\ pc = "start" /\ self.tag = "Ok"
        /\ Invoke("op", self.val)
        /\ PollAwait(Fut("op", self.val), Ok(Output(Fut("op", self.val)).val))
     \/ /\ pc = "start" /\ self.tag = "Err"
        /\ Return(Err(self.val))
     \/ /\ pc = "await"
        /\ PollAwait(fut, Ok(Output(fut).val))
        /\ UNCHANGED <<calls, awaits>>
  /\ polls' = polls + 1
  /\ UNCHANGED <<method, self, op, default>>

async_and_then ==
  /\ method = "async_and_then"
  /\ \/ /\ pc = "start" /\ self.tag = "Ok"
        /\ Invoke("op", self.val)
        /\ PollAwait(Fut("op", self.val), Output(Fut("op", self.val)))
     \/ /\ pc = "start" /\ self.tag = "Err"
        /\ Return(Err(self.val))
     \/ /\ pc = "await"
        /\ PollAwait(fut, Output(fut))
        /\ UNCHANGED <<calls, awaits>>
  /\ polls' = polls + 1
  /\ UNCHANGED <<method, self, op, default>>

\* async_map_or with the arms' values exchanged on the Ok side: the closure is
\* awaited and the default returned.
async_map_or_default_on_ok ==
  /\ method = "async_map_or"
  /\ \/ /\ pc = "start" /\ self.tag = "Ok"
        /\ Invoke("op", self.val)
        /\ PollAwait(Fut("op", self.val), default)
     \/ /\ pc = "start" /\ self.tag = "Err"
        /\ Return(default)
     \/ /\ pc = "await"
        /\ PollAwait(fut, default)
        /\ UNCHANGED <<calls, awaits>>
  /\ polls' = polls + 1
  /\ UNCHANGED <<method, self, op, default>>

async_map_or ==
  /\ method = "async_map_or"
  /\ \/ /\ pc = "start" /\ self.tag = "Ok"
        /\ Invoke("op", self.val)
        /\ PollAwait(Fut("op", self.val), Output(Fut("op", self.val)))
     \/ /\ pc = "start" /\ self.tag = "Err"
        /\ Return(default)
     \/ /\ pc = "await"
        /\ PollAwait(fut, Output(fut))
        /\ UNCHANGED <<calls, awaits>>
  /\ polls' = polls + 1
  /\ UNCHANGED <<method, self, op, default>>

\* async_map_or_else with the two closures exchanged between the arms.
async_map_or_else_swapped ==
  /\ method = "async_map_or_else"
  /\ \/ /\ pc = "start" /\ self.tag = "Ok"
        /\ Invoke("default", self.val)
        /\ PollAwait(Fut("default", self.val), Output(Fut("default", self.val)))
     \/ /\ pc = "start" /\ self.tag = "Err"
        /\ Invoke("op", self.val)
        /\ PollAwait(Fut("op", self.val), Output(Fut("op", self.val)))
     \/ /\ pc = "await"
        /\ PollAwait(fut, Output(fut))
        /\ UNCHANGED <<calls, awaits>>
  /\ polls' = polls + 1
  /\ UNCHANGED <<method, self, op, default>>

async_map_or_else ==
  /\ method = "async_map_or_else"
  /\ \/ /\ pc = "start" /\ self.tag = "Ok"
        /\ Invoke("op", self.val)
        /\ PollAwait(Fut("op", self.val), Output(Fut("op", self.val)))
     \/ /\ pc = "start" /\ self.tag = "Err"
        /\ Invoke("default", self.val)
        /\ PollAwait(Fut("default", self.val), Output(Fut("default", self.val)))
     \/ /\ pc = "await"
        /\ PollAwait(fut, Output(fut))
        /\ UNCHANGED <<calls, awaits>>
  /\ polls' = polls + 1
  /\ UNCHANGED <<method, self, op, default>>

\* async_map_err awaiting the closure but passing the original error on.
async_map_err_unmapped ==
  /\ method = "async_map_err"
  /\ \/ /\ pc = "start" /\ self.tag = "Ok"
        /\ Return(Ok(self.val))
     \/ /\ pc = "start" /\ self.tag = "Err"
        /\ Invoke("op", self.val)
        /\ PollAwait(Fut("op", self.val), Err(self.val))
     \/ /\ pc = "await"
        /\ PollAwait(fut, Err(fut.arg))
        /\ UNCHANGED <<calls, awaits>>
  /\ polls' = polls + 1
  /\ UNCHANGED <<method, self, op, default>>

async_map_err ==
  /\ method = "async_map_err"
  /\ \/ /\ pc = "start" /\ self.tag = "Ok"
        /\ Return(Ok(self.val))
     \/ /\ pc = "start" /\ self.tag = "Err"
        /\ Invoke("op", self.val)
        /\ PollAwait(Fut("op", self.val), Err(Output(Fut("op", self.val))))
     \/ /\ pc = "await"
        /\ PollAwait(fut, Err(Output(fut)))
        /\ UNCHANGED <<calls, awaits>>
  /\ polls' = polls + 1
  /\ UNCHANGED <<method, self, op, default>>

\* async_inspect peeking at the payload of either variant.
async_inspect_both ==
  /\ method = "async_inspect"
  /\ \/ /\ pc = "start" /\ self.tag = "Ok"
        /\ Invoke("op", self.val)
        /\ PollAwait(Fut("op", self.val), self)
     \/ /\ pc = "start" /\ self.tag # "Ok"
        /\ Invoke("op", self.val)
        /\ PollAwait(Fut("op", self.val), self)
     \/ /\ pc = "await"
        /\ PollAwait(fut, self)
        /\ UNCHANGED <<calls, awaits>>
  /\ polls' = polls + 1
  /\ UNCHANGED <<method, self, op, default>>

\* `if let Ok(ref value) = self { op(value).await; } self`: the future's
\* output is discarded and the receiver itself is returned.
async_inspect ==
  /\ method = "async_inspect"
  /\ \/ /\ pc = "start" /\ self.tag = "Ok"
        /\ Invoke("op", self.val)
        /\ PollAwait(Fut("op", self.val), self)
     \/ /\ pc = "start" /\ self.tag # "Ok"
        /\ Return(self)
     \/ /\ pc = "await"
        /\ PollAwait(fut, self)
        /\ UNCHANGED <<calls, awaits>>
  /\ polls' = polls + 1
  /\ UNCHANGED <<method, self, op, default>>

\* async_inspect_err testing for the Ok variant instead of the Err variant.
async_inspect_err_on_ok ==
  /\ method = "async_inspect_err"
  /\ \/ /\ pc = "start" /\ self.tag = "Ok"
        /\ Invoke("op", self.val)
        /\ PollAwait(Fut("op", self.val), self)
     \/ /\ pc = "start" /\ self.tag # "Ok"
        /\ Return(self)
     \/ /\ pc = "await"
        /\ PollAwait(fut, self)
        /\ UNCHANGED <<calls, awaits>>
  /\ polls' = polls + 1
  /\ UNCHANGED <<method, self, op, default>>

async_inspect_err ==
  /\ method = "async_inspect_err"
  /\ \/ /\ pc = "start" /\ self.tag = "Err"
        /\ Invoke("op", self.val)
        /\ PollAwait(Fut("op", self.val), self)
     \/ /\ pc = "start" /\ self.tag # "Err"
        /\ Return(self)
     \/ /\ pc = "await"
        /\ PollAwait(fut, self)
        /\ UNCHANGED <<calls, awaits>>
  /\ polls' = polls + 1
  /\ UNCHANGED <<method, self, op, default>>

\* async_is_ok_and answering like is_ok: the predicate is awaited and its
\* answer dropped.
async_is_ok_and_is_ok ==
  /\ method = "async_is_ok_and"
  /\ \/ /\ pc = "start" /\ self.tag = "Err"
        /\ Return(FALSE)
     \/ /\ pc = "start" /\ self.tag = "Ok"
        /\ Invoke("op", self.val)
        /\ PollAwait(Fut("op", self.val), TRUE)
     \/ /\ pc = "await"
        /\ PollAwait(fut, TRUE)
        /\ UNCHANGED <<calls, awaits>>
  /\ polls' = polls + 1
  /\ UNCHANGED <<method, self, op, default>>

async_is_ok_and ==
  /\ method = "async_is_ok_and"
  /\ \/ /\ pc = "start" /\ self.tag = "Err"
        /\ Return(FALSE)
     \/ /\ pc = "start" /\ self.tag = "Ok"
        /\ Invoke("op", self.val)
        /\ PollAwait(Fut("op", self.val), Output(Fut("op", self.val)))
     \/ /\ pc = "await"
        /\ PollAwait(fut, Output(fut))
        /\ UNCHANGED <<calls, awaits>>
  /\ polls' = polls + 1
  /\ UNCHANGED <<method, self, op, default>>

Next ==
  \/ async_map
  \/ async_and_then
  \/ async_map_or
  \/ async_map_or_else
  \/ async_map_err
  \/ async_inspect
  \/ async_inspect_err
  \/ async_is_ok_and

Spec == Init /\ [][Next]_vars

----------------------------------------------------------------------------
(* Properties *)

Call(fn, arg) == [fn |-> fn, arg |-> arg]

\* C1: a completed async_map call on Ok(v) has result Ok(op(v)) after one
\* invocation op(v); on Err(e) it has result Err(e), and op is never invoked
\* on an Err receiver at any point of the call.
C1_AsyncMap ==
  method = "async_map" =>
    /\ (self.tag = "Err" => calls = <<>>)
    /\ (pc = "done" /\ self.tag = "Ok" =>
          result = Ok(op[self.val]) /\ calls = <<Call("op", self.val)>>)
    /\ (pc = "done" /\ self.tag = "Err" => result = Err(self.val))

C1_Witness ==
  /\ method = "async_map" /\ pc = "done" /\ self.tag = "Ok"
  /\ op[self.val] # self.val
  /\ result = Ok(op[self.val])

\* C2: a completed async_and_then call on Ok(v) has exactly the outcome op(v)
\* resolved to, Ok or Err, not wrapped again; on Err(e) it has Err(e) and op
\* is never invoked.
C2_AsyncAndThen ==
  method = "async_and_then" =>
    /\ (self.tag = "Err" => calls = <<>>)
    /\ (pc = "done" /\ self.tag = "Ok" =>
          /\ result.tag = op[self.val].tag
          /\ result.val = op[self.val].val
          /\ calls = <<Call("op", self.val)>>)
    /\ (pc = "done" /\ self.tag = "Err" => result = Err(self.val))

C2_Witness ==
  /\ method = "async_and_then" /\ pc = "done" /\ self.tag = "Ok"
  /\ op[self.val].tag = "Err"
  /\ result = op[self.val]

\* C3: a completed async_map_err call on Ok(v) has result Ok(v) and op is
\* never invoked on an Ok receiver; on Err(e) it has result Err(op(e)) after
\* one invocation op(e).
C3_AsyncMapErr ==
  method = "async_map_err" =>
    /\ (self.tag = "Ok" => calls = <<>>)
    /\ (pc = "done" /\ self.tag = "Ok" => result = Ok(self.val))
    /\ (pc = "done" /\ self.tag = "Err" =>
          result = Err(op[self.val]) /\ calls = <<Call("op", self.val)>>)

C3_Witness ==
  /\ method = "async_map_err" /\ pc = "done" /\ self.tag = "Err"
  /\ op[self.val] # self.val
  /\ result = Err(op[self.val])

\* C4: a completed async_map_or call on Ok(v) has result op(v), whatever the
\* default; on Err(e) it has exactly the default as result, whatever e, and
\* op is never invoked.
C4_AsyncMapOr ==
  method = "async_map_or" =>
    /\ (self.tag = "Err" => calls = <<>>)
    /\ (pc = "done" /\ self.tag = "Ok" =>
          result = op[self.val] /\ calls = <<Call("op", self.val)>>)
    /\ (pc = "done" /\ self.tag = "Err" => result = default)

C4_Witness ==
  /\ method = "async_map_or" /\ pc = "done" /\ self.tag = "Ok"
  /\ op[self.val] # default
  /\ result = op[self.val]

\* C5: a completed async_map_or_else call on Ok(v) has result op(v) and
\* default was never invoked; on Err(e) it has result default(e) and op was
\* never invoked.
C5_AsyncMapOrElse ==
  method = "async_map_or_else" =>
    /\ (\A i \in 1..Len(calls) :
          calls[i].fn = (IF self.tag = "Ok" THEN "op" ELSE "default"))
    /\ (pc = "done" /\ self.tag = "Ok" =>
          result = op[self.val] /\ calls = <<Call("op", self.val)>>)
    /\ (pc = "done" /\ self.tag = "Err" =>
          result = default[self.val] /\ calls = <<Call("default", self.val)>>)

C5_Witness ==
  /\ method = "async_map_or_else" /\ pc = "done" /\ self.tag = "Err"
  /\ default[self.val] # op[self.val]
  /\ result = default[self.val]
  /\ calls = <<Call("default", self.val)>>
\* C6: async_inspect and async_inspect_err complete with the receiver itself
\* (same variant, same payload); on the matching variant (Ok for
\* async_inspect, Err for async_inspect_err) op was invoked exactly once, with
\* that payload, and its side effect happened exactly once; on the other
\* variant op is never invoked and no side effect happens.
C6_Inspect ==
  method \in {"async_inspect", "async_inspect_err"} =>
    LET matching == IF method = "async_inspect" THEN "Ok" ELSE "Err" IN
    /\ (pc = "done" => result = self)
    /\ (pc = "done" /\ self.tag = matching =>
          calls = <<Call("op", self.val)>> /\ seen = <<self.val>>)
    /\ (self.tag # matching => calls = <<>> /\ seen = <<>>)
    /\ Len(calls) <= 1 /\ Len(seen) <= 1

C6_Witness ==
  /\ method = "async_inspect_err" /\ pc = "done" /\ self.tag = "Err"
  /\ result = self
  /\ calls = <<Call("op", self.val)>>
  /\ seen = <<self.val>>

\* C7: a completed async_is_ok_and call on Err(e) has result FALSE and the
\* predicate is never invoked on an Err receiver; on Ok(v) it has exactly the
\* boolean the predicate resolved to for v.
C7_AsyncIsOkAnd ==
  method = "async_is_ok_and" =>
    /\ (self.tag = "Err" => calls = <<>>)
    /\ (pc = "done" /\ self.tag = "Err" => result = FALSE)
    /\ (pc = "done" /\ self.tag = "Ok" =>
          result = op[self.val] /\ calls = <<Call("op", self.val)>>)

C7_Witness ==
  /\ method = "async_is_ok_and" /\ pc = "done" /\ self.tag = "Ok"
  /\ op[self.val] = FALSE
  /\ result = FALSE

\* The variant of the receiver on which closure fn of combinator m is
\* documented to be invoked (doc comments of the trait, lib.rs 20-108).
DocumentedBranch(m, fn) ==
  IF fn = "default" \/ m \in {"async_map_err", "async_inspect_err"}
    THEN "Err"
    ELSE "Ok"

\* The closures combinator m receives.
Supplied(m) == IF m = "async_map_or_else" THEN {"op", "default"} ELSE {"op"}

\* C8: in every call of every combinator at most one invocation of a
\* caller-supplied closure happens in all (so none is invoked twice and
\* async_map_or_else never invokes both default and op), and each invocation
\* is of a closure the combinator received, on the receiver variant it is
\* documented for, with the receiver's payload.
C8_InvokedAtMostOnce ==
  /\ Len(calls) <= 1
  /\ \A i \in 1..Len(calls) :
       /\ calls[i].fn \in Supplied(method)
       /\ self.tag = DocumentedBranch(method, calls[i].fn)
       /\ calls[i].arg = self.val

C8_Witness ==
  /\ method = "async_map_or_else" /\ pc = "done" /\ self.tag = "Err"
  /\ calls = <<Call("default", self.val)>>
  /\ polls > 1

\* The receivers a combinator passes through without invoking a closure.
PassThrough ==
  \/ method \in {"async_map", "async_and_then", "async_map_or",
                 "async_inspect", "async_is_ok_and"} /\ self.tag = "Err"
  \/ method \in {"async_map_err", "async_inspect_err"} /\ self.tag = "Ok"

\* C9: a call reaches at most one await point.  On a branch that invokes a
\* closure it reaches exactly one, on that closure's future, stays parked on
\* that future while it is pending and is done only once the future has
\* completed; on a pass-through branch it reaches none, is never parked, and
\* is done after its first poll.
C9_SingleSuspension ==
  /\ awaits <= 1
  /\ (~PassThrough /\ pc # "start" =>
        /\ awaits = 1
        /\ Len(calls) = 1)
  /\ (~PassThrough /\ pc = "await" =>
        /\ fut = Fut(calls[1].fn, calls[1].arg)
        /\ seen = <<>>)
  /\ (~PassThrough /\ pc = "done" =>
        /\ delay = 0
        /\ seen = <<calls[1].arg>>)
  /\ (PassThrough =>
        /\ awaits = 0
        /\ pc # "await"
        /\ (pc = "done" => polls = 1))

C9_Witness ==
  /\ ~PassThrough /\ pc = "done"
  /\ polls = MaxDelay + 1
  /\ awaits = 1

\* C10 as stated: async_inspect_err awaits op when the receiver is Ok and
\* does not invoke it when the receiver is Err, returning the receiver
\* unchanged in both cases.
C10_AsStated ==
  method = "async_inspect_err" /\ pc = "done" =>
    /\ result = self
    /\ (self.tag = "Ok" => Len(calls) = 1 /\ awaits = 1)
    /\ (self.tag = "Err" => calls = <<>>)

\* C10 amended: async_inspect_err awaits op, applied to the error payload,
\* when the receiver is Err and does nothing (op not invoked, no await) when
\* the receiver is Ok, returning the receiver unchanged in both cases.
C10_Amended ==
  method = "async_inspect_err" =>
    /\ (pc = "done" => result = self)
    /\ (pc = "done" /\ self.tag = "Err" =>
          calls = <<Call("op", self.val)>> /\ awaits = 1)
    /\ (self.tag = "Ok" => calls = <<>> /\ awaits = 0)

C10_Witness ==
  /\ method = "async_inspect_err" /\ pc = "done" /\ self.tag = "Err"
  /\ result = self
  /\ calls = <<Call("op", self.val)>>
  /\ awaits = 1
  /\ polls = MaxDelay + 1
====
